---- MODULE Spec2Model ----
(***************************************************************************)
(* RTP header decoding (src/rtp/header.rs, src/rtp/mod.rs).                *)
(*                                                                         *)
(* Header::from_buf and HeaderExtension::from_buf are modelled statement   *)
(* by statement as a program-counter machine over a byte buffer; the       *)
(* HeaderInfo accessors are operators built from shift and mask.           *)
(*                                                                         *)
(* Bytes are integers 0..255, a slice is a sequence of bytes.  A read or   *)
(* a slice advance past the end of a slice panics in Rust; the machine     *)
(* then moves to pc = "panic".                                             *)
(*                                                                         *)
(* TLC's integers are 32-bit signed, so the 32-bit words the buffers are   *)
(* built from have their top bit clear; 16-bit words cover their range.    *)
(***************************************************************************)
EXTENDS Integers, Sequences, FiniteSets, TLC

(***************************************************************************)
(* Bounds of the model.                                                    *)
(***************************************************************************)
\* most CSRC identifiers a generated packet carries
MaxCsrc == 2
\* most extension words a generated packet carries
MaxExt == 2
\* most payload bytes that follow a generated header
MaxPayload == 1

(***************************************************************************)
(* Integer helpers: u16 shift right, bitwise and, the `as u8` cast.        *)
(***************************************************************************)
shr(x, n) == x \div (2 ^ n)

RECURSIVE BitAnd(_, _)
BitAnd(x, m) == IF x = 0 \/ m = 0 THEN 0 ELSE (x % 2) * (m % 2) + 2 * BitAnd(x \div 2, m \div 2)

as_u8(x) == x % 256

(***************************************************************************)
(* Slices.  &buf[n..] and the byteorder reads panic when the slice is too  *)
(* short; InBounds is the condition under which they do not.               *)
(***************************************************************************)
InBounds(s, n) == Len(s) >= n

Advance(s, n) == SubSeq(s, n + 1, Len(s))

Take(s, n) == SubSeq(s, 1, n)

\* NetworkEndian::read_u16: the first two bytes, most significant first
read_u16(s) == s[1] * 256 + s[2]

\* NetworkEndian::read_u32: the first four bytes, most significant first
read_u32(s) == ((s[1] * 256 + s[2]) * 256 + s[3]) * 256 + s[4]

(***************************************************************************)
(* HeaderInfo(u16): six accessors, each a shift and a mask.                *)
(***************************************************************************)
version(v) == as_u8(shr(v, 14))

has_padding(v) == BitAnd(shr(v, 13), 1) = 1

has_extension(v) == BitAnd(shr(v, 12), 1) = 1

\* the bug of a mask one bit short: & 0b111
csrc_count_Mask3(v) == as_u8(BitAnd(shr(v, 8), 7))

csrc_count(v) == as_u8(BitAnd(shr(v, 8), 15))

has_marker(v) == BitAnd(shr(v, 7), 1) = 1

payload_type(v) == as_u8(BitAnd(v, 127))

(***************************************************************************)
(* RtpError has the one variant HeaderError(&'static str); the four        *)
(* failures differ in the message they carry.                              *)
(***************************************************************************)
HeaderError(cause) == [variant |-> "HeaderError", cause |-> cause]

HeaderTooSmall == HeaderError("Buffer is too small to contain a valid header.")

InsufficientCsrcData == HeaderError("Buffer does not contain the specified number of CSRC identifiers.")

ExtensionHeaderMissing == HeaderError("Header extension does not contain required info.")

InsufficientExtensionData == HeaderError("Header extension does not contain specified number of blocks.")

\* Error::description
description(e) == e.cause

(***************************************************************************)
(* Result and Option values.                                               *)
(***************************************************************************)
Ok(v) == [tag |-> "Ok", val |-> v]

Err(e) == [tag |-> "Err", err |-> e]

Some(v) == [tag |-> "Some", val |-> v]

None == [tag |-> "None"]

\* a call that has not returned
Pending == [tag |-> "Pending"]

(***************************************************************************)
(* The structs.                                                            *)
(***************************************************************************)
Header(i, s, t, ssrc, csrcs, ext) == [info |-> i, sequence |-> s, timestamp |-> t, ssrc_identifier |-> ssrc, csrc_identifiers |-> csrcs, extension |-> ext]

HeaderExtension(i, l, d) == [extension_id |-> i, ehl |-> l, extension |-> d]

(***************************************************************************)
(* The sender's side, from the wire format of the module's header comment  *)
(* (the repository has no encoder): big-endian writes of the fields.       *)
(***************************************************************************)
write_u16(w) == << w \div 256, w % 256 >>

write_u32(w) == << w \div (2 ^ 24), (w \div (2 ^ 16)) % 256, (w \div 256) % 256, w % 256 >>

RECURSIVE WriteWords(_)
WriteWords(ws) == IF ws = << >> THEN << >> ELSE write_u32(Head(ws)) \o WriteWords(Tail(ws))

WireExtension(e) == write_u16(e.extension_id) \o write_u16(e.ehl) \o WriteWords(e.extension)

Wire(h) == write_u16(h.info) \o write_u16(h.sequence) \o write_u32(h.timestamp) \o write_u32(h.ssrc_identifier) \o WriteWords(h.csrc_identifiers) \o (IF h.extension.tag = "Some" THEN WireExtension(h.extension.val) ELSE << >>)

(***************************************************************************)
(* The inputs.  A profile fixes the info bits other than X and CC and the  *)
(* fixed fields; every byte of a word differs from its neighbours so that  *)
(* a wrong byte order shows.                                               *)
(*   profile 1: V=2 P=0 M=0 PT=96,  seq 0x0102, ts 0x01020304,             *)
(*              ssrc 0x0A0B0C0D, extension id 0xBEDE                       *)
(*   profile 2: V=3 P=1 M=1 PT=127, seq 0xFFFE, ts 0x7FFFFFFE,             *)
(*              ssrc 0x00000080, extension id 0x0001                       *)
(***************************************************************************)
Profiles == { [base |-> 32864, sequence |-> 258, timestamp |-> 16909060, ssrc |-> 168496141, ext_id |-> 48862], [base |-> 57599, sequence |-> 65534, timestamp |-> 2147483646, ssrc |-> 128, ext_id |-> 1] }

\* 0x01020304 and 0x7F0000FE
Words == { 16909060, 2130706686 }

PayloadBytes == { 0, 255 }

\* declared extension lengths no generated buffer can hold: 0x4000 and 0xFFFF
OverEhl == { 16384, 65535 }

WordLists(n) == UNION { [1..k -> Words] : k \in 0..n }

ByteLists(n) == UNION { [1..k -> PayloadBytes] : k \in 0..n }

InfoWord(base, x, cc) == base + 4096 * x + 256 * cc

\* headers whose declared counts are the counts they carry
WellFormed == { Header(InfoWord(pr.base, 0, Len(cs)), pr.sequence, pr.timestamp, pr.ssrc, cs, None) : pr \in Profiles, cs \in WordLists(MaxCsrc) } \cup { Header(InfoWord(pr.base, 1, Len(cs)), pr.sequence, pr.timestamp, pr.ssrc, cs, Some(HeaderExtension(pr.ext_id, Len(d), d))) : pr \in Profiles, cs \in WordLists(MaxCsrc), d \in WordLists(MaxExt) }

\* CC = 15 declared, fewer identifiers carried
OverCsrc == { Header(InfoWord(pr.base, x, 15), pr.sequence, pr.timestamp, pr.ssrc, cs, None) : pr \in Profiles, x \in {0, 1}, cs \in WordLists(MaxCsrc) }

\* an extension length declared that the buffer cannot hold
OverExt == { Header(InfoWord(pr.base, 1, Len(cs)), pr.sequence, pr.timestamp, pr.ssrc, cs, Some(HeaderExtension(pr.ext_id, e, d))) : pr \in Profiles, cs \in WordLists(MaxCsrc), d \in WordLists(MaxExt), e \in OverEhl }

Prefixes(b) == { Take(b, n) : n \in 0..Len(b) }

ProperPrefixes(b) == { Take(b, n) : n \in 0..(Len(b) - 1) }

\* the buffer of the test small_header
SmallHeaderTest == << 123, 123 >>

\* buffers that are no well-formed packet: cut short, or over-declared
Malformed == UNION { ProperPrefixes(Wire(h)) : h \in WellFormed } \cup UNION { Prefixes(Wire(h)) : h \in OverCsrc \cup OverExt } \cup { SmallHeaderTest }

(***************************************************************************)
(* State.                                                                  *)
(*   buf            the buffer handed to Header::from_buf                  *)
(*   pkt            << h >> when buf was made as Wire(h) and payload,      *)
(*                  << >> otherwise                                        *)
(*   prev           the earlier calls: << [buf, result] >>                 *)
(*   pc             the statement the call is at                           *)
(*   header_buf .. extension   locals of Header::from_buf                  *)
(*   extension_buf .. ext_ret  locals and return value of                  *)
(*                  HeaderExtension::from_buf                              *)
(*   result         what Header::from_buf returned                         *)
(*   accessed       the six accessor values read off a HeaderInfo          *)
(***************************************************************************)
VARIABLES buf, pkt, prev, pc, header_buf, info, sequence, timestamp, ssrc_id, csrc_cnt, csrc_data, i, extension, extension_buf, id, ehl, extension_data, j, ext_ret, result, accessed

vars == << buf, pkt, prev, pc, header_buf, info, sequence, timestamp, ssrc_id, csrc_cnt, csrc_data, i, extension, extension_buf, id, ehl, extension_data, j, ext_ret, result, accessed >>

callVars == << buf, pkt, prev, accessed >>

hdrLocals == << header_buf, info, sequence, timestamp, ssrc_id, csrc_cnt, csrc_data, i, extension >>

extLocals == << extension_buf, id, ehl, extension_data, j, ext_ret >>

\* entry of Header::from_buf(b): the locals hold nothing yet
Enter(b) == /\ pc = "check_len" /\ header_buf = b /\ info = 0 /\ sequence = 0 /\ timestamp = 0 /\ ssrc_id = 0 /\ csrc_cnt = 0 /\ csrc_data = << >> /\ i = 0 /\ extension = None /\ extension_buf = << >> /\ id = 0 /\ ehl = 0 /\ extension_data = << >> /\ j = 0 /\ ext_ret = Pending /\ result = Pending

\* a well-formed packet arrives whole, payload behind it
InitPacket == \E h \in WellFormed, pl \in ByteLists(MaxPayload) : pkt = << h >> /\ buf = Wire(h) \o pl /\ Enter(Wire(h) \o pl)

\* a buffer arrives that is no well-formed packet
InitMalformed == \E b \in Malformed : pkt = << >> /\ buf = b /\ Enter(b)

Init == prev = << >> /\ accessed = None /\ (InitPacket \/ InitMalformed)

(***************************************************************************)
(* Header::from_buf, one action per statement.                             *)
(***************************************************************************)
\* the bug of a bound one too low: len() < 11
TooSmall_OffByOne(b) == Len(b) < 12 - 1

\* header.rs:48  header_buf.len() < 12
TooSmall(b) == Len(b) < 12

\* the bug of counting identifiers where bytes are meant
CsrcBytes_NoScale(n) == n

\* header.rs:72  csrc_count * 4, in usize
CsrcBytes(n) == n * 4

\* the bug of multiplying in u16 before widening: ehl * 4 wraps at 2^16
ExtBytes_U16(l) == (l * 4) % (2 ^ 16)

\* header.rs:205  ehl as usize * 4: widened to usize, then multiplied
ExtBytes(l) == l * 4

\* a read or a slice advance out of bounds
Panic == pc' = "panic" /\ UNCHANGED << callVars, hdrLocals, extLocals, result >>

CheckLen == /\ pc = "check_len"
            /\ IF TooSmall(header_buf)
                 THEN result' = Err(HeaderTooSmall) /\ pc' = "done"
                 ELSE result' = result /\ pc' = "read_info"
            /\ UNCHANGED << callVars, hdrLocals, extLocals >>

ReadInfo == /\ pc = "read_info"
            /\ IF ~InBounds(header_buf, 2)
                 THEN Panic
                 ELSE /\ info' = read_u16(header_buf)
                      /\ header_buf' = Advance(header_buf, 2)
                      /\ pc' = "read_sequence"
                      /\ UNCHANGED << callVars, sequence, timestamp, ssrc_id, csrc_cnt, csrc_data, i, extension, extLocals, result >>

ReadSequence == /\ pc = "read_sequence"
                /\ IF ~InBounds(header_buf, 2)
                     THEN Panic
                     ELSE /\ sequence' = read_u16(header_buf)
                          /\ header_buf' = Advance(header_buf, 2)
                          /\ pc' = "read_timestamp"
                          /\ UNCHANGED << callVars, info, timestamp, ssrc_id, csrc_cnt, csrc_data, i, extension, extLocals, result >>

ReadTimestamp == /\ pc = "read_timestamp"
                 /\ IF ~InBounds(header_buf, 4)
                      THEN Panic
                      ELSE /\ timestamp' = read_u32(header_buf)
                           /\ header_buf' = Advance(header_buf, 4)
                           /\ pc' = "read_ssrc"
                           /\ UNCHANGED << callVars, info, sequence, ssrc_id, csrc_cnt, csrc_data, i, extension, extLocals, result >>

ReadSsrc == /\ pc = "read_ssrc"
            /\ IF ~InBounds(header_buf, 4)
                 THEN Panic
                 ELSE /\ ssrc_id' = read_u32(header_buf)
                      /\ header_buf' = Advance(header_buf, 4)
                      /\ pc' = "check_csrc"
                      /\ UNCHANGED << callVars, info, sequence, timestamp, csrc_cnt, csrc_data, i, extension, extLocals, result >>

\* the bug of looking for the extension header before the CSRC data is known to be there
CheckCsrc_ExtensionFirst == /\ pc = "check_csrc"
                            /\ csrc_cnt' = csrc_count(info)
                            /\ IF has_extension(info) /\ Len(header_buf) < CsrcBytes(csrc_count(info)) + 4
                                 THEN result' = Err(ExtensionHeaderMissing) /\ pc' = "done"
                                 ELSE IF Len(header_buf) < CsrcBytes(csrc_count(info))
                                        THEN result' = Err(InsufficientCsrcData) /\ pc' = "done"
                                        ELSE result' = result /\ pc' = "csrc_loop"
                            /\ UNCHANGED << callVars, header_buf, info, sequence, timestamp, ssrc_id, csrc_data, i, extension, extLocals >>

\* header.rs:69-74: the count is taken from info, then checked against the rest
CheckCsrc == /\ pc = "check_csrc"
             /\ csrc_cnt' = csrc_count(info)
             /\ IF Len(header_buf) < CsrcBytes(csrc_count(info))
                  THEN result' = Err(InsufficientCsrcData) /\ pc' = "done"
                  ELSE result' = result /\ pc' = "csrc_loop"
             /\ UNCHANGED << callVars, header_buf, info, sequence, timestamp, ssrc_id, csrc_data, i, extension, extLocals >>

\* the bug of collecting the identifiers last one first
CsrcIter_Reversed == /\ pc = "csrc_loop"
                     /\ i < csrc_cnt
                     /\ IF ~InBounds(header_buf, 4)
                          THEN Panic
                          ELSE /\ csrc_data' = << read_u32(header_buf) >> \o csrc_data
                               /\ header_buf' = Advance(header_buf, 4)
                               /\ i' = i + 1
                               /\ UNCHANGED << callVars, pc, info, sequence, timestamp, ssrc_id, csrc_cnt, extension, extLocals, result >>

\* header.rs:78-81: one pass of `for _ in 0..csrc_count`
CsrcIter == /\ pc = "csrc_loop"
            /\ i < csrc_cnt
            /\ IF ~InBounds(header_buf, 4)
                 THEN Panic
                 ELSE /\ csrc_data' = Append(csrc_data, read_u32(header_buf))
                      /\ header_buf' = Advance(header_buf, 4)
                      /\ i' = i + 1
                      /\ UNCHANGED << callVars, pc, info, sequence, timestamp, ssrc_id, csrc_cnt, extension, extLocals, result >>

\* header.rs:78, 82: the range is exhausted
CsrcExit == /\ pc = "csrc_loop"
            /\ ~(i < csrc_cnt)
            /\ pc' = "dispatch"
            /\ UNCHANGED << callVars, hdrLocals, extLocals, result >>

\* header.rs:86-92: the extension parser is called on the rest, or not at all
Dispatch == /\ pc = "dispatch"
            /\ IF has_extension(info)
                 THEN extension_buf' = header_buf /\ pc' = "ext_check_header" /\ extension' = extension
                 ELSE extension_buf' = extension_buf /\ pc' = "build" /\ extension' = None
            /\ UNCHANGED << callVars, header_buf, info, sequence, timestamp, ssrc_id, csrc_cnt, csrc_data, i, id, ehl, extension_data, j, ext_ret, result >>

\* the bug of replacing the callee's error by one of the caller's own
Try_Reworded == /\ pc = "try"
                /\ IF ext_ret.tag = "Err"
                     THEN result' = Err(HeaderError("Header extension is invalid.")) /\ pc' = "done" /\ extension' = extension
                     ELSE result' = result /\ pc' = "build" /\ extension' = Some(ext_ret.val)
                /\ UNCHANGED << callVars, header_buf, info, sequence, timestamp, ssrc_id, csrc_cnt, csrc_data, i, extLocals >>

\* the bug of taking an extension of no words for no extension
Try_EmptyIsAbsent == /\ pc = "try"
                     /\ IF ext_ret.tag = "Err"
                          THEN result' = Err(ext_ret.err) /\ pc' = "done" /\ extension' = extension
                          ELSE result' = result /\ pc' = "build" /\ extension' = (IF ext_ret.val.ehl = 0 THEN None ELSE Some(ext_ret.val))
                     /\ UNCHANGED << callVars, header_buf, info, sequence, timestamp, ssrc_id, csrc_cnt, csrc_data, i, extLocals >>

\* header.rs:89: try! returns the callee's error as it is (From<RtpError> for
\* RtpError is the identity), or unwraps its value
Try == /\ pc = "try"
       /\ IF ext_ret.tag = "Err"
            THEN result' = Err(ext_ret.err) /\ pc' = "done" /\ extension' = extension
            ELSE result' = result /\ pc' = "build" /\ extension' = Some(ext_ret.val)
       /\ UNCHANGED << callVars, header_buf, info, sequence, timestamp, ssrc_id, csrc_cnt, csrc_data, i, extLocals >>

\* header.rs:94-101
Build == /\ pc = "build"
         /\ result' = Ok(Header(info, sequence, timestamp, ssrc_id, csrc_data, extension))
         /\ pc' = "done"
         /\ UNCHANGED << callVars, hdrLocals, extLocals >>

(***************************************************************************)
(* HeaderExtension::from_buf, one action per statement.                    *)
(***************************************************************************)
\* the bug of checking for the id alone: len() < 2
ExtCheckHeader_IdOnly == /\ pc = "ext_check_header"
                         /\ IF Len(extension_buf) < 2
                              THEN ext_ret' = Err(ExtensionHeaderMissing) /\ pc' = "try"
                              ELSE ext_ret' = ext_ret /\ pc' = "ext_read_id"
                         /\ UNCHANGED << callVars, hdrLocals, extension_buf, id, ehl, extension_data, j, result >>

ExtCheckHeader == /\ pc = "ext_check_header"
                  /\ IF Len(extension_buf) < 4
                       THEN ext_ret' = Err(ExtensionHeaderMissing) /\ pc' = "try"
                       ELSE ext_ret' = ext_ret /\ pc' = "ext_read_id"
                  /\ UNCHANGED << callVars, hdrLocals, extension_buf, id, ehl, extension_data, j, result >>

ExtReadId == /\ pc = "ext_read_id"
             /\ IF ~InBounds(extension_buf, 2)
                  THEN Panic
                  ELSE /\ id' = read_u16(extension_buf)
                       /\ extension_buf' = Advance(extension_buf, 2)
                       /\ pc' = "ext_read_ehl"
                       /\ UNCHANGED << callVars, hdrLocals, ehl, extension_data, j, ext_ret, result >>

ExtReadEhl == /\ pc = "ext_read_ehl"
              /\ IF ~InBounds(extension_buf, 2)
                   THEN Panic
                   ELSE /\ ehl' = read_u16(extension_buf)
                        /\ extension_buf' = Advance(extension_buf, 2)
                        /\ pc' = "ext_check_data"
                        /\ UNCHANGED << callVars, hdrLocals, id, extension_data, j, ext_ret, result >>

\* the bug of asking for exactly the declared bytes, so that payload is an error
ExtCheckData_Exact == /\ pc = "ext_check_data"
                      /\ IF Len(extension_buf) # ExtBytes(ehl)
                           THEN ext_ret' = Err(InsufficientExtensionData) /\ pc' = "try"
                           ELSE ext_ret' = ext_ret /\ pc' = "ext_loop"
                      /\ UNCHANGED << callVars, hdrLocals, extension_buf, id, ehl, extension_data, j, result >>

ExtCheckData == /\ pc = "ext_check_data"
                /\ IF Len(extension_buf) < ExtBytes(ehl)
                     THEN ext_ret' = Err(InsufficientExtensionData) /\ pc' = "try"
                     ELSE ext_ret' = ext_ret /\ pc' = "ext_loop"
                /\ UNCHANGED << callVars, hdrLocals, extension_buf, id, ehl, extension_data, j, result >>

\* header.rs:210-213: one pass of `for _ in 0..ehl as usize`
ExtIter == /\ pc = "ext_loop"
           /\ j < ehl
           /\ IF ~InBounds(extension_buf, 4)
                THEN Panic
                ELSE /\ extension_data' = Append(extension_data, read_u32(extension_buf))
                     /\ extension_buf' = Advance(extension_buf, 4)
                     /\ j' = j + 1
                     /\ UNCHANGED << callVars, pc, hdrLocals, id, ehl, ext_ret, result >>

\* header.rs:210, 215-219: the range is exhausted, the struct is returned
ExtReturn == /\ pc = "ext_loop"
             /\ ~(j < ehl)
             /\ ext_ret' = Ok(HeaderExtension(id, ehl, extension_data))
             /\ pc' = "try"
             /\ UNCHANGED << callVars, hdrLocals, extension_buf, id, ehl, extension_data, j, result >>

(***************************************************************************)
(* The caller.  Each call parses one buffer of its own; a second call is   *)
(* made on a buffer that differs from the first at its tail: the last      *)
(* byte dropped, the last byte changed, or a byte added.                   *)
(***************************************************************************)
TailVariants(b) == ({ b \o << x >> : x \in PayloadBytes } \cup (IF Len(b) = 0 THEN {} ELSE { Take(b, Len(b) - 1) } \cup { Take(b, Len(b) - 1) \o << x >> : x \in PayloadBytes })) \ { b }

NextCall == /\ pc = "done"
            /\ prev = << >>
            /\ prev' = << [buf |-> buf, result |-> result] >>
            /\ \E b \in TailVariants(buf) : buf' = b /\ header_buf' = b
            /\ pc' = "check_len" /\ info' = 0 /\ sequence' = 0 /\ timestamp' = 0 /\ ssrc_id' = 0 /\ csrc_cnt' = 0 /\ csrc_data' = << >> /\ i' = 0 /\ extension' = None
            /\ extension_buf' = << >> /\ id' = 0 /\ ehl' = 0 /\ extension_data' = << >> /\ j' = 0 /\ ext_ret' = Pending /\ result' = Pending
            /\ UNCHANGED << pkt, accessed >>

Step == CheckLen \/ ReadInfo \/ ReadSequence \/ ReadTimestamp \/ ReadSsrc \/ CheckCsrc \/ CsrcIter \/ CsrcExit \/ Dispatch \/ ExtCheckHeader \/ ExtReadId \/ ExtReadEhl \/ ExtCheckData \/ ExtIter \/ ExtReturn \/ Try \/ Build

Next == Step \/ NextCall

Spec == Init /\ [][Next]_vars

(***************************************************************************)
(* HeaderInfo on its own: any 16-bit word is a HeaderInfo, and a caller    *)
(* reads the six accessors off it.                                         *)
(***************************************************************************)
InfoInit == /\ buf = << >> /\ pkt = << >> /\ prev = << >> /\ accessed = None
            /\ pc = "info" /\ info \in 0..(2 ^ 16 - 1)
            /\ header_buf = << >> /\ sequence = 0 /\ timestamp = 0 /\ ssrc_id = 0 /\ csrc_cnt = 0 /\ csrc_data = << >> /\ i = 0 /\ extension = None
            /\ extension_buf = << >> /\ id = 0 /\ ehl = 0 /\ extension_data = << >> /\ j = 0 /\ ext_ret = Pending /\ result = Pending

Accessors == /\ pc = "info"
             /\ accessed' = [version |-> version(info), has_padding |-> has_padding(info), has_extension |-> has_extension(info), csrc_count |-> csrc_count(info), has_marker |-> has_marker(info), payload_type |-> payload_type(info)]
             /\ pc' = "info_done"
             /\ UNCHANGED << buf, pkt, prev, hdrLocals, extLocals, result >>

InfoNext == Accessors

InfoSpec == InfoInit /\ [][InfoNext]_vars

(***************************************************************************)
(* What the claims read off a buffer, by plain arithmetic on its bytes.    *)
(***************************************************************************)
\* bits 11-8 of the first big-endian 16-bit word
RawCC(b) == b[1] % 16

\* bit 12 of the first big-endian 16-bit word
RawX(b) == (b[1] \div 16) % 2 = 1

\* the bytes left after the fixed 12 and the CSRC list
RawRest(b) == Len(b) - 12 - 4 * RawCC(b)

\* the big-endian 16-bit word at offset 12 + 4*cc + 2
RawEhl(b) == b[12 + 4 * RawCC(b) + 3] * 256 + b[12 + 4 * RawCC(b) + 4]

\* the big-endian 32-bit word at byte offset off
WordAt(b, off) == b[off + 1] * (2 ^ 24) + b[off + 2] * (2 ^ 16) + b[off + 3] * 256 + b[off + 4]

\* the statements up to and including each check
UpToLenCheck == { "check_len" }

UpToCsrcCheck == UpToLenCheck \cup { "read_info", "read_sequence", "read_timestamp", "read_ssrc", "check_csrc" }

UpToExtHeaderCheck == UpToCsrcCheck \cup { "csrc_loop", "dispatch", "ext_check_header" }

UpToExtDataCheck == UpToExtHeaderCheck \cup { "ext_read_id", "ext_read_ehl", "ext_check_data" }

AllErrors == { HeaderTooSmall, InsufficientCsrcData, ExtensionHeaderMissing, InsufficientExtensionData }

(***************************************************************************)
(* C1: on a buffer of fewer than 12 bytes the call ends at its first       *)
(* check with the error HeaderTooSmall and no Header, whatever the bytes.  *)
(***************************************************************************)
C1_ShortBufferIsTooSmall == (Len(buf) < 12 /\ pc \notin UpToLenCheck) => (pc = "done" /\ result = Err(HeaderTooSmall))

C1_Witness == pc = "done" /\ Len(buf) = 11 /\ result = Err(HeaderTooSmall) /\ prev # << >> /\ prev[1].buf = Take(buf, 10) /\ prev[1].result = Err(HeaderTooSmall)

(***************************************************************************)
(* C2: on a buffer of at least 12 bytes whose CSRC count cc has            *)
(* 4*cc > length - 12 the call ends at the CSRC check with the error       *)
(* InsufficientCsrcData and no Header; that error differs from             *)
(* HeaderTooSmall and from the two extension errors.                       *)
(***************************************************************************)
C2_MissingCsrcData == (Len(buf) >= 12 /\ 4 * RawCC(buf) > Len(buf) - 12 /\ pc \notin UpToCsrcCheck) => (pc = "done" /\ result = Err(InsufficientCsrcData) /\ description(result.err) \notin { description(HeaderTooSmall), description(ExtensionHeaderMissing), description(InsufficientExtensionData) })

C2_Witness == pc = "done" /\ Len(buf) = 19 /\ RawCC(buf) = 2 /\ result = Err(InsufficientCsrcData)

(***************************************************************************)
(* C3: with the extension flag set, the CSRC list complete and fewer than  *)
(* 4 bytes after it, the extension parser returns ExtensionHeaderMissing   *)
(* and Header::from_buf returns that very error, and no Header.            *)
(***************************************************************************)
C3_ExtensionHeaderMissing == (Len(buf) >= 12 /\ RawRest(buf) >= 0 /\ RawX(buf) /\ RawRest(buf) < 4 /\ pc \notin UpToExtHeaderCheck) => (pc \in { "try", "done" } /\ ext_ret = Err(ExtensionHeaderMissing) /\ (pc = "done" => result = ext_ret))

C3_Witness == pc = "done" /\ Len(buf) = 19 /\ RawX(buf) /\ RawCC(buf) = 1 /\ result = Err(ExtensionHeaderMissing)

(***************************************************************************)
(* C4: with the extension flag set, the 4-byte id+length pair present and  *)
(* a declared length ehl with 4*ehl more than the bytes after the pair,    *)
(* the call ends with InsufficientExtensionData (not                       *)
(* ExtensionHeaderMissing) and no Header; 4*ehl is computed exactly, for   *)
(* every ehl up to 65535.                                                  *)
(***************************************************************************)
C4_MissingExtensionData == (Len(buf) >= 12 /\ RawX(buf) /\ RawRest(buf) >= 4 /\ 4 * RawEhl(buf) > RawRest(buf) - 4 /\ pc \notin UpToExtDataCheck) => (pc \in { "try", "done" } /\ ext_ret = Err(InsufficientExtensionData) /\ ehl = RawEhl(buf) /\ ExtBytes(ehl) = 4 * RawEhl(buf) /\ (pc = "done" => result = Err(InsufficientExtensionData)) /\ description(InsufficientExtensionData) # description(ExtensionHeaderMissing))

C4_Witness == pc = "done" /\ Len(buf) >= 12 /\ RawX(buf) /\ RawRest(buf) = 8 /\ RawEhl(buf) = 16384 /\ result = Err(InsufficientExtensionData)

(***************************************************************************)
(* C5: for every 16-bit value v the accessors of HeaderInfo(v) return      *)
(* version = v div 2^14, has_padding = bit 13, has_extension = bit 12,     *)
(* csrc_count = (v div 2^8) mod 16, has_marker = bit 7 and                 *)
(* payload_type = v mod 128, each in its range, and v is the sum of the    *)
(* six fields put back at their places.                                    *)
(***************************************************************************)
Bit(v, k) == (v \div (2 ^ k)) % 2 = 1

B2N(b) == IF b THEN 1 ELSE 0

C5_InfoFields ==
    pc = "info_done" =>
        /\ (accessed.version = info \div (2 ^ 14) /\ accessed.version \in 0..3)
        /\ (accessed.has_padding = Bit(info, 13))
        /\ (accessed.has_extension = Bit(info, 12))
        /\ (accessed.csrc_count = (info \div (2 ^ 8)) % 16 /\ accessed.csrc_count \in 0..15)
        /\ (accessed.has_marker = Bit(info, 7))
        /\ (accessed.payload_type = info % 128 /\ accessed.payload_type \in 0..127)
        /\ (info = accessed.version * (2 ^ 14) + B2N(accessed.has_padding) * (2 ^ 13) + B2N(accessed.has_extension) * (2 ^ 12) + accessed.csrc_count * (2 ^ 8) + B2N(accessed.has_marker) * (2 ^ 7) + accessed.payload_type)

\* 0xBFA5: V=2 P=1 X=1 CC=15 M=1 PT=37
C5_Witness == pc = "info_done" /\ info = 49061 /\ accessed = [version |-> 2, has_padding |-> TRUE, has_extension |-> TRUE, csrc_count |-> 15, has_marker |-> TRUE, payload_type |-> 37]

(***************************************************************************)
(* C6: round trip.  A buffer that is the wire form of a well-formed        *)
(* header, payload bytes or none behind it, parses to exactly that header; *)
(* the k-th CSRC word of the buffer is the k-th identifier and the k-th    *)
(* extension word of the buffer is the k-th word of the extension data.    *)
(***************************************************************************)
IsPrefix(a, b) == Len(a) <= Len(b) /\ Take(b, Len(a)) = a

C6_RoundTrip ==
    (pkt # << >> /\ IsPrefix(Wire(pkt[1]), buf) /\ pc \in { "done", "panic" }) =>
        /\ (pc = "done")
        /\ (result = Ok(pkt[1]))
        /\ (\A k \in 1..Len(result.val.csrc_identifiers) : result.val.csrc_identifiers[k] = WordAt(buf, 12 + 4 * (k - 1)))
        /\ (result.val.extension.tag = "Some" => \A k \in 1..Len(result.val.extension.val.extension) : result.val.extension.val.extension[k] = WordAt(buf, 12 + 4 * RawCC(buf) + 4 + 4 * (k - 1)))

\* two different identifiers and two different extension words, payload behind
C6_Witness == pc = "done" /\ pkt # << >> /\ Len(buf) = Len(Wire(pkt[1])) + 1 /\ result = Ok(pkt[1]) /\ result.val.csrc_identifiers = << 2130706686, 16909060 >> /\ result.val.extension.tag = "Some" /\ result.val.extension.val.extension = << 16909060, 2130706686 >> /\ result.val.sequence = 258

(***************************************************************************)
(* C7: every Header returned has as many CSRC identifiers as its info      *)
(* declares; it has an extension exactly when its info has the extension   *)
(* flag; and the extension has as many data words as its length says.  A   *)
(* set flag with length 0 gives an extension with no words, not none.      *)
(***************************************************************************)
C7_HeaderShape ==
    (pc = "done" /\ result.tag = "Ok") =>
        /\ (Len(result.val.csrc_identifiers) = csrc_count(result.val.info))
        /\ ((result.val.extension.tag = "Some") = has_extension(result.val.info))
        /\ (result.val.extension.tag \in { "Some", "None" })
        /\ (result.val.extension.tag = "Some" => Len(result.val.extension.val.extension) = result.val.extension.val.ehl)
        /\ ((RawX(buf) /\ RawRest(buf) >= 4 /\ RawEhl(buf) = 0) => result.val.extension = Some(HeaderExtension(read_u16(Advance(buf, 12 + 4 * RawCC(buf))), 0, << >>)))

C7_Witness == pc = "done" /\ result.tag = "Ok" /\ Len(result.val.csrc_identifiers) = 2 /\ result.val.extension.tag = "Some" /\ result.val.extension.val.ehl = 0 /\ result.val.extension.val.extension = << >> /\ Len(buf) = 12 + 8 + 4

(***************************************************************************)
(* C8: the checks run in one order and the first that fails decides the    *)
(* error: length < 12 before the CSRC count is looked at, the CSRC check   *)
(* before any extension check, the extension-header check before the       *)
(* extension-data check.  A buffer that breaks several constraints gets    *)
(* the earliest error, and the extension parser is not entered when the    *)
(* flag is clear or an earlier check failed.                               *)
(***************************************************************************)
ExtensionPcs == { "ext_check_header", "ext_read_id", "ext_read_ehl", "ext_check_data", "ext_loop", "try" }

ExtensionEntered == pc \in ExtensionPcs \/ ext_ret # Pending

C8_CheckOrder ==
    /\ (pc \notin UpToLenCheck \cup { "done" } => Len(buf) >= 12)
    /\ (pc \notin UpToCsrcCheck \cup { "done" } => (Len(buf) >= 12 /\ RawRest(buf) >= 0))
    /\ (ExtensionEntered => (Len(buf) >= 12 /\ RawRest(buf) >= 0 /\ RawX(buf)))
    /\ (pc \in { "ext_read_id", "ext_read_ehl", "ext_check_data", "ext_loop" } => RawRest(buf) >= 4)
    /\ (pc = "ext_loop" => RawRest(buf) - 4 >= 4 * RawEhl(buf))
    /\ (pc = "done" => IF Len(buf) < 12 THEN result = Err(HeaderTooSmall)
                       ELSE IF RawRest(buf) < 0 THEN result = Err(InsufficientCsrcData)
                       ELSE IF RawX(buf) /\ RawRest(buf) < 4 THEN result = Err(ExtensionHeaderMissing)
                       ELSE IF RawX(buf) /\ 4 * RawEhl(buf) > RawRest(buf) - 4 THEN result = Err(InsufficientExtensionData)
                       ELSE result.tag = "Ok")

\* flag set, too few CSRC bytes and so no extension bytes either
C8_Witness == pc = "done" /\ Len(buf) = 17 /\ RawX(buf) /\ RawCC(buf) = 2 /\ result = Err(InsufficientCsrcData) /\ ext_ret = Pending

(***************************************************************************)
(* C9: the result does not depend on bytes past the header.  With          *)
(* N = 12 + 4*cc + (4 + 4*ehl if the flag is set), two buffers of at       *)
(* least N bytes that agree on their first N bytes both parse, to equal    *)
(* Headers; bytes after the header cause no error.                         *)
(***************************************************************************)
\* the buffer holds all the bytes its header declares
Complete(b) == Len(b) >= 12 /\ RawRest(b) >= 0 /\ (RawX(b) => (RawRest(b) >= 4 /\ RawRest(b) - 4 >= 4 * RawEhl(b)))

HeaderLen(b) == 12 + 4 * RawCC(b) + (IF RawX(b) THEN 4 + 4 * RawEhl(b) ELSE 0)

C9_PayloadIgnored ==
    /\ ((pc \in { "done", "panic" } /\ Complete(buf)) => (pc = "done" /\ result.tag = "Ok"))
    /\ ((pc \in { "done", "panic" } /\ prev # << >> /\ Complete(prev[1].buf) /\ Len(buf) >= HeaderLen(prev[1].buf) /\ Take(buf, HeaderLen(prev[1].buf)) = Take(prev[1].buf, HeaderLen(prev[1].buf))) => (pc = "done" /\ prev[1].result.tag = "Ok" /\ result = prev[1].result))

\* the same header with an extension word, once with a payload byte behind it and once without
C9_Witness == pc = "done" /\ prev # << >> /\ Complete(buf) /\ RawX(buf) /\ RawEhl(buf) = 1 /\ Len(buf) = HeaderLen(buf) /\ Len(prev[1].buf) = Len(buf) + 1 /\ result.tag = "Ok" /\ result = prev[1].result

(***************************************************************************)
(* C10: the call is total and stays in bounds.  Every read and every       *)
(* slice advance has its bytes, so nothing panics; each loop runs at most  *)
(* its declared count; every statement but the last has a next one and     *)
(* each step brings the end nearer; the call ends with a Header or one of  *)
(* the four errors.                                                        *)
(***************************************************************************)
\* steps left at most: the statements ahead and the loop passes ahead
Measure == CASE pc = "done" -> 0
             [] pc = "build" -> 1
             [] pc = "try" -> 2
             [] pc = "ext_loop" -> 3 + (ehl - j)
             [] pc = "ext_check_data" -> 2 ^ 16 + 3
             [] pc = "ext_read_ehl" -> 2 ^ 16 + 4
             [] pc = "ext_read_id" -> 2 ^ 16 + 5
             [] pc = "ext_check_header" -> 2 ^ 16 + 6
             [] pc = "dispatch" -> 2 ^ 16 + 7
             [] pc = "csrc_loop" -> 2 ^ 16 + 8 + (csrc_cnt - i)
             [] pc = "check_csrc" -> 2 ^ 16 + 24
             [] pc = "read_ssrc" -> 2 ^ 16 + 25
             [] pc = "read_timestamp" -> 2 ^ 16 + 26
             [] pc = "read_sequence" -> 2 ^ 16 + 27
             [] pc = "read_info" -> 2 ^ 16 + 28
             [] pc = "check_len" -> 2 ^ 16 + 29
             [] OTHER -> 0 - 1

InBoundsAlways ==
    /\ pc # "panic"
    /\ (pc \in { "read_info", "read_sequence" } => Len(header_buf) >= 2)
    /\ (pc \in { "read_timestamp", "read_ssrc" } => Len(header_buf) >= 4)
    /\ (pc = "csrc_loop" => (i <= csrc_cnt /\ csrc_cnt = RawCC(buf) /\ Len(header_buf) >= 4 * (csrc_cnt - i)))
    /\ (pc \in { "ext_read_id", "ext_read_ehl" } => Len(extension_buf) >= 2)
    /\ (pc = "ext_loop" => (j <= ehl /\ ehl = RawEhl(buf) /\ Len(extension_buf) >= 4 * (ehl - j)))
    /\ (pc # "done" => ENABLED Step)
    /\ (pc = "done" => (result.tag = "Ok" \/ (result.tag = "Err" /\ result.err \in AllErrors)))
    /\ (pc = "done" => (i <= 15 /\ j <= 2 ^ 16 - 1 /\ (result.tag = "Ok" => i + j = RawCC(buf) + (IF RawX(buf) THEN RawEhl(buf) ELSE 0))))

C10_TotalAndInBounds == []InBoundsAlways /\ [][pc # "done" => (Measure' >= 0 /\ Measure' < Measure)]_vars

\* both loops have run their full count and the call has returned a Header
C10_Witness == pc = "done" /\ result.tag = "Ok" /\ i = 2 /\ j = 2 /\ Len(header_buf) = 13 /\ Len(extension_buf) = 1 /\ Len(buf) = 33

====
